---- MODULE Spec2Model ----
(***************************************************************************)
(* BrewBuddy backend: registration, token validation and the per-user      *)
(* coffee list of src/server.js, with the query helpers of                 *)
(* src/db/database.js.  Every database statement a handler awaits is one   *)
(* atomic step; handlers of different requests interleave between steps.   *)
(* The store runs every statement it is given: a statement fails only by   *)
(* a constraint of the schema.                                             *)
(***************************************************************************)
EXTENDS Integers, Sequences, FiniteSets, TLC

\* ------------------------------------------------------------------ bounds
NumProcs == 2        \* requests that can be in flight at the same time
MaxRequests == 2     \* requests accepted in one run of the concurrent system
MaxCoffeeId == 2     \* cap on the AUTOINCREMENT counter of table coffees
MaxCoffeeUsers == 2  \* users (by id) whose tokens are used on /api/coffees

\* ------------------------------------------------------- program constants
MaxUsers == 10       \* tester limit of POST /api/auth/register
MinUsernameLen == 2  \* shortest trimmed username accepted

VARIABLES
    users,      \* table users, in rowid order: [id, username, token]
    coffees,    \* table coffees, in rowid order: [id, user_id, data, created_at]
    coffeeSeq,  \* sqlite_sequence of coffees: the last AUTOINCREMENT id given out
    now,        \* CURRENT_TIMESTAMP, in seconds
    pc,         \* per request slot: the statement its handler awaits
    req,        \* per request slot: the request and the handler's locals
    resp,       \* per request slot: the response sent
    issued,     \* history: tokens stored by a register
    returned,   \* history: users returned by a successful register
    expect,     \* history: per user, the list of the replace that completed last
    budget,     \* requests the run still accepts (Unlimited: no limit)
    hits,       \* per rate limiter and caller address: requests counted in the window
    seen,       \* history: per rate limiter and caller, the requests that reached it
    failures,   \* history: the 500 responses of the analyze handlers
    sqlite,     \* database.js on SQLite: its tables and sequences
    postgresql, \* database.js on PostgreSQL: its tables and sequences
    results,    \* what the last query helper returned on each backend
    db,         \* database.js: the connection handle (module variable db)
    dbType,     \* database.js: the backend type (module variable dbType)
    phase       \* history: the lifecycle phase the completed calls have led to

\* the state outside the store of src/server.js
serviceVars == <<hits, seen, failures, sqlite, postgresql, results, db, dbType,
                 phase>>

vars == <<users, coffees, coffeeSeq, now, pc, req, resp, issued, returned,
          expect, budget, serviceVars>>

Procs == 1..NumProcs

\* ------------------------------------------------------------------ text
\* A string is a sequence of one-character strings.
Letters == <<"a", "b", "c", "d">>
Uppers == <<"A", "B", "C", "D">>
Space == " "

Range(s) == {s[i] : i \in DOMAIN s}

Max(S) == IF S = {} THEN 0 ELSE CHOOSE x \in S : \A y \in S : y <= x

\* SQL LOWER() / UPPER() on one ASCII character
LowerChar(c) ==
    IF \E i \in DOMAIN Uppers : Uppers[i] = c
    THEN Letters[CHOOSE i \in DOMAIN Uppers : Uppers[i] = c]
    ELSE c

UpperChar(c) ==
    IF \E i \in DOMAIN Letters : Letters[i] = c
    THEN Uppers[CHOOSE i \in DOMAIN Letters : Letters[i] = c]
    ELSE c

LOWER(s) == [i \in 1..Len(s) |-> LowerChar(s[i])]

UPPER(s) == [i \in 1..Len(s) |-> UpperChar(s[i])]

RECURSIVE TrimLeft(_)
TrimLeft(s) ==
    IF s # <<>> /\ Head(s) = Space THEN TrimLeft(Tail(s)) ELSE s

RECURSIVE TrimRight(_)
TrimRight(s) ==
    IF s # <<>> /\ s[Len(s)] = Space
    THEN TrimRight(SubSeq(s, 1, Len(s) - 1))
    ELSE s

\* String.prototype.trim
trim(s) == TrimRight(TrimLeft(s))

\* ------------------------------------------------------------ user names
\* The names requests carry.  Names are only trimmed, lower-cased and
\* compared, so a name nobody has used yet is represented by the first
\* unused name of the pool.
PoolSize == Len(Letters) * Len(Letters)

Name(i) == <<Letters[((i - 1) \div Len(Letters)) + 1],
             Letters[((i - 1) % Len(Letters)) + 1]>>

NameIdx(s) ==
    LET k == LOWER(trim(s))
    IN IF \E i \in 1..PoolSize : Name(i) = k
       THEN CHOOSE i \in 1..PoolSize : Name(i) = k
       ELSE 0

Pad(s) == <<Space>> \o s \o <<Space>>

NoUsername == <<>>

InvalidUsernames == {NoUsername, <<Space, "a">>}

StoredIdx == {NameIdx(users[i].username) : i \in DOMAIN users}

UsedIdx ==
    StoredIdx
    \cup {NameIdx(req[p].username) : p \in {q \in Procs : req[q].kind = "register"}}

\* Every check treats registered names alike: requests repeat the name
\* stored last and the name used last, as stored and in upper case.
TakenSample == {Max(StoredIdx), Max(UsedIdx)} \ {0}

UsernameInputs ==
    LET f == Max(UsedIdx) + 1
    IN InvalidUsernames
       \cup (IF f <= PoolSize THEN {Name(f), Pad(Name(f))} ELSE {})
       \cup {Name(j) : j \in TakenSample}
       \cup {UPPER(Name(j)) : j \in TakenSample}

\* ---------------------------------------------------------------- tokens
\* Tokens are opaque; 0 stands for a token that is absent from the request.
NoToken == 0

TokensInUse == {users[i].token : i \in DOMAIN users}

FreshToken == Max(TokensInUse \cup issued) + 1

\* uuidv4(): a random 122-bit value, represented by a token never seen before
uuidv4 == FreshToken

\* ------------------------------------------------- persistence operations
\* SELECT COUNT(*) as count FROM users
getUserCount(us) == Len(us)

\* mutant: the comparison without LOWER()
usernameExistsExact(us, username) ==
    \E i \in DOMAIN us : us[i].username = username

\* SELECT id FROM users WHERE LOWER(username) = LOWER(?)
usernameExists(us, username) ==
    \E i \in DOMAIN us : LOWER(us[i].username) = LOWER(username)

\* mutant: the WHERE clause lost
getUserByTokenAny(us, token) ==
    {us[i] : i \in DOMAIN us}

\* SELECT id, username FROM users WHERE token = ?  (the rows that match)
getUserByToken(us, token) ==
    {us[i] : i \in {j \in DOMAIN us : us[j].token = token}}

\* The UNIQUE constraints of table users (binary collation: case-sensitive)
UsersUniqueOk(us, username, token) ==
    \A i \in DOMAIN us : us[i].username # username /\ us[i].token # token

\* INSERT INTO users (username, token) VALUES (?, ?): the new table.
\* Users are never deleted, so the AUTOINCREMENT id is the row count + 1.
createUser(us, username, token) ==
    Append(us, [id |-> Len(us) + 1, username |-> username, token |-> token])

\* --------------------------------------------------------------- requests
Idle == [kind |-> "none"]

NoResp == [status |-> 0]

Free(p) == pc[p] \in {"idle", "done"}

\* A request is accepted while the run's budget lasts.
Unlimited == 0 - 1

CanStart(p) == Free(p) /\ budget # 0

Spend == budget' = IF budget > 0 THEN budget - 1 ELSE budget

Finish(p, r) ==
    /\ pc' = [pc EXCEPT ![p] = "done"]
    /\ resp' = [resp EXCEPT ![p] = r]

Goto(p, l) ==
    /\ pc' = [pc EXCEPT ![p] = l]
    /\ UNCHANGED resp

\* ------------------------------------------- POST /api/auth/register
ValidUsername(username) ==
    username # NoUsername /\ Len(trim(username)) >= MinUsernameLen

RegisterStart(p) ==
    /\ UNCHANGED serviceVars
    /\ CanStart(p)
    /\ \E username \in UsernameInputs :
        /\ req' = [req EXCEPT ![p] = [kind |-> "register", username |-> username,
                                      pre |-> users]]
        /\ IF ~ValidUsername(username)
           THEN /\ pc' = [pc EXCEPT ![p] = "done"]
                /\ resp' = [resp EXCEPT ![p] = [status |-> 400]]
           ELSE /\ pc' = [pc EXCEPT ![p] = "count"]
                /\ resp' = [resp EXCEPT ![p] = NoResp]
    /\ Spend
    /\ UNCHANGED <<users, coffees, coffeeSeq, now, issued, returned, expect>>

\* mutant: the limit compared with > instead of >=
RegisterCountOffByOne(p) ==
    /\ UNCHANGED serviceVars
    /\ pc[p] = "count"
    /\ IF getUserCount(users) > MaxUsers
       THEN Finish(p, [status |-> 403, spotsRemaining |-> 0])
       ELSE Goto(p, "lookup")
    /\ UNCHANGED <<users, coffees, coffeeSeq, now, req, issued, returned, expect, budget>>

RegisterCount(p) ==
    /\ UNCHANGED serviceVars
    /\ pc[p] = "count"
    /\ IF getUserCount(users) >= MaxUsers
       THEN Finish(p, [status |-> 403, spotsRemaining |-> 0])
       ELSE Goto(p, "lookup")
    /\ UNCHANGED <<users, coffees, coffeeSeq, now, req, issued, returned, expect, budget>>

RegisterLookup(p) ==
    /\ UNCHANGED serviceVars
    /\ pc[p] = "lookup"
    /\ IF usernameExists(users, trim(req[p].username))
       THEN Finish(p, [status |-> 409])
       ELSE Goto(p, "insert")
    /\ UNCHANGED <<users, coffees, coffeeSeq, now, req, issued, returned, expect, budget>>

RegisterInsert(p) ==
    /\ UNCHANGED serviceVars
    /\ pc[p] = "insert"
    /\ LET token == uuidv4
           username == trim(req[p].username)
       IN IF UsersUniqueOk(users, username, token)
           THEN /\ users' = createUser(users, username, token)
                /\ issued' = issued \cup {token}
                /\ req' = [req EXCEPT ![p] = [kind |-> "register",
                                              username |-> req[p].username,
                                              pre |-> req[p].pre,
                                              lastID |-> Len(users) + 1, \* result.lastID
                                              token |-> token]]
                /\ Goto(p, "recount")
           ELSE /\ Finish(p, [status |-> 500])
                /\ UNCHANGED <<users, issued, req>>
    /\ UNCHANGED <<coffees, coffeeSeq, now, returned, expect, budget>>

RegisterRecount(p) ==
    /\ UNCHANGED serviceVars
    /\ pc[p] = "recount"
    /\ LET user == [id |-> req[p].lastID, username |-> trim(req[p].username),
                    token |-> req[p].token]
       IN /\ Finish(p, [status |-> 200, user |-> user,
                        spotsRemaining |-> MaxUsers - getUserCount(users)])
          /\ returned' = returned \cup {user}
    /\ UNCHANGED <<users, coffees, coffeeSeq, now, req, issued, expect, budget>>

\* ------------------------------------------- GET /api/auth/validate
\* no token, a token no user has, the token of the first and of the last user
TokenInputs ==
    {NoToken, FreshToken}
    \cup {users[i].token : i \in {j \in DOMAIN users : j = 1 \/ j = Len(users)}}

ValidateStart(p) ==
    /\ UNCHANGED serviceVars
    /\ CanStart(p)
    /\ \E token \in TokenInputs :
        /\ req' = [req EXCEPT ![p] = [kind |-> "validate", token |-> token]]
        /\ IF token = NoToken
           THEN /\ pc' = [pc EXCEPT ![p] = "done"]
                /\ resp' = [resp EXCEPT ![p] = [status |-> 400]]
           ELSE /\ pc' = [pc EXCEPT ![p] = "vuser"]
                /\ resp' = [resp EXCEPT ![p] = NoResp]
    /\ Spend
    /\ UNCHANGED <<users, coffees, coffeeSeq, now, issued, returned, expect>>

ValidateUser(p) ==
    /\ UNCHANGED serviceVars
    /\ pc[p] = "vuser"
    /\ LET found == getUserByToken(users, req[p].token)
       IN IF found = {}
          THEN Finish(p, [status |-> 401, valid |-> FALSE])
          ELSE \E user \in found :
                 Finish(p, [status |-> 200, valid |-> TRUE,
                            user |-> [id |-> user.id, username |-> user.username]])
    /\ UNCHANGED <<users, coffees, coffeeSeq, now, req, issued, returned, expect, budget>>

\* ------------------------------------------------------------------ JSON
\* A coffee is a JSON object: a function from keys to values.  Its text is
\* the sequence of its members, in the order of Keys.
Keys == <<"name", "id", "savedAt">>

JSONstringify(obj) ==
    LET present == SelectSeq(Keys, LAMBDA k : k \in DOMAIN obj)
    IN [i \in 1..Len(present) |-> <<present[i], obj[present[i]]>>]

JSONparse(text) ==
    [k \in {text[i][1] : i \in DOMAIN text} |->
        LET i == CHOOSE j \in DOMAIN text : text[j][1] = k IN text[i][2]]

CoffeeX == [name |-> "X"]

\* a coffee as GET /api/coffees returned it earlier: it carries id and savedAt
CoffeeY == [name |-> "Y", id |-> 9, savedAt |-> -1]

CoffeeElems == {CoffeeX, CoffeeY}

RECURSIVE ListsUpTo(_)
ListsUpTo(n) ==
    IF n = 0 THEN {<<>>}
    ELSE LET shorter == ListsUpTo(n - 1)
         IN shorter \cup {Append(l, e) : l \in shorter, e \in CoffeeElems}

\* the coffees member of a request body: absent, or an array
NoList == <<[absent |-> TRUE]>>

\* (a list longer than the ids the model has left is never accepted)
CoffeeListInputs == ListsUpTo(MaxCoffeeId) \cup {NoList}

ListOf(coffeesArg) == IF coffeesArg = NoList THEN <<>> ELSE coffeesArg

\* ------------------------------------------------------ table coffees
\* SELECT id, data, created_at FROM coffees WHERE user_id = ?
\*   ORDER BY created_at DESC: every order of the user's rows that the
\* ORDER BY allows (rows of the same second come in any order)
getUserCoffees(cs, userId) ==
    LET rows == SelectSeq(cs, LAMBDA c : c.user_id = userId)
        n == Len(rows)
    IN {[i \in 1..n |-> rows[f[i]]] : f \in
          {g \in Permutations(1..n) :
             \A i, j \in 1..n :
                i < j => rows[g[i]].created_at >= rows[g[j]].created_at}}

\* INSERT INTO coffees (user_id, data) VALUES (?, ?): the new table
\* (id from the AUTOINCREMENT counter, created_at DEFAULT CURRENT_TIMESTAMP)
saveCoffee(cs, seq, t, userId, data) ==
    Append(cs, [id |-> seq + 1, user_id |-> userId, data |-> data,
                created_at |-> t])

\* mutant: the delete statement skipped
deleteUserCoffeesNone(cs, userId) == cs

\* mutant: the WHERE clause lost
deleteUserCoffeesAll(cs, userId) == <<>>

\* DELETE FROM coffees WHERE user_id = ?: the new table
deleteUserCoffees(cs, userId) ==
    SelectSeq(cs, LAMBDA c : c.user_id # userId)

\* the stored coffees of a user, parsed, in rowid order
Stored(cs, userId) ==
    LET rows == SelectSeq(cs, LAMBDA c : c.user_id = userId)
    IN [i \in 1..Len(rows) |-> JSONparse(rows[i].data)]

CoffeeTokenInputs ==
    {NoToken, FreshToken}
    \cup {users[i].token : i \in {j \in DOMAIN users : users[j].id <= MaxCoffeeUsers}}

\* ------------------------------------------------- GET /api/coffees
\* { id: c.id, ...JSON.parse(c.data), savedAt: c.created_at }
Merged(c) ==
    LET parsed == JSONparse(c.data)
    IN [k \in {"id", "savedAt"} \cup DOMAIN parsed |->
          IF k = "savedAt" THEN c.created_at
          ELSE IF k \in DOMAIN parsed THEN parsed[k]
          ELSE c.id]

ListStart(p) ==
    /\ UNCHANGED serviceVars
    /\ CanStart(p)
    /\ \E token \in CoffeeTokenInputs :
        /\ req' = [req EXCEPT ![p] = [kind |-> "list", token |-> token,
                                      pre |-> <<users, coffees>>]]
        /\ IF token = NoToken
           THEN /\ pc' = [pc EXCEPT ![p] = "done"]
                /\ resp' = [resp EXCEPT ![p] = [status |-> 401]]
           ELSE /\ pc' = [pc EXCEPT ![p] = "luser"]
                /\ resp' = [resp EXCEPT ![p] = NoResp]
    /\ Spend
    /\ UNCHANGED <<users, coffees, coffeeSeq, now, issued, returned, expect>>

\* mutant: an unknown token answered with an empty list
ListUserLenient(p) ==
    /\ UNCHANGED serviceVars
    /\ pc[p] = "luser"
    /\ LET found == getUserByToken(users, req[p].token)
       IN IF found = {}
          THEN /\ Finish(p, [status |-> 200, coffees |-> <<>>])
               /\ UNCHANGED req
          ELSE \E user \in found :
                 /\ req' = [req EXCEPT ![p] = [kind |-> "list",
                                               token |-> req[p].token,
                                               pre |-> req[p].pre,
                                               userId |-> user.id]]
                 /\ Goto(p, "lall")
    /\ UNCHANGED <<users, coffees, coffeeSeq, now, issued, returned, expect, budget>>

ListUser(p) ==
    /\ UNCHANGED serviceVars
    /\ pc[p] = "luser"
    /\ LET found == getUserByToken(users, req[p].token)
       IN IF found = {}
          THEN /\ Finish(p, [status |-> 401])
               /\ UNCHANGED req
          ELSE \E user \in found :
                 /\ req' = [req EXCEPT ![p] = [kind |-> "list",
                                               token |-> req[p].token,
                                               pre |-> req[p].pre,
                                               userId |-> user.id]]
                 /\ Goto(p, "lall")
    /\ UNCHANGED <<users, coffees, coffeeSeq, now, issued, returned, expect, budget>>

ListAll(p) ==
    /\ UNCHANGED serviceVars
    /\ pc[p] = "lall"
    /\ \E rows \in getUserCoffees(coffees, req[p].userId) :
          Finish(p, [status |-> 200,
                     coffees |-> [i \in 1..Len(rows) |-> Merged(rows[i])]])
    /\ UNCHANGED <<users, coffees, coffeeSeq, now, req, issued, returned, expect, budget>>

\* ------------------------------------------------- POST /api/coffees
InReplace(p) == pc[p] \in {"ruser", "rdelete", "rinsert"}

RECURSIVE PendingInserts(_)
PendingInserts(ps) ==
    IF ps = {} THEN 0
    ELSE LET p == CHOOSE q \in ps : TRUE
         IN (IF InReplace(p) THEN Len(ListOf(req[p].coffees)) - req[p].done ELSE 0)
            + PendingInserts(ps \ {p})

\* the id counter of the model is capped: a request is taken only if the
\* rows of every accepted request still fit
IdsLeft(list) == coffeeSeq + PendingInserts(Procs) + Len(list) <= MaxCoffeeId

ReplaceStart(p) ==
    /\ UNCHANGED serviceVars
    /\ CanStart(p)
    /\ \E token \in CoffeeTokenInputs, coffeesArg \in CoffeeListInputs :
        /\ IdsLeft(ListOf(coffeesArg))
        /\ req' = [req EXCEPT ![p] = [kind |-> "replace", token |-> token,
                                      coffees |-> coffeesArg,
                                      pre |-> <<users, coffees>>,
                                      userId |-> 0, old |-> <<>>, done |-> 0]]
        /\ IF token = NoToken
           THEN /\ pc' = [pc EXCEPT ![p] = "done"]
                /\ resp' = [resp EXCEPT ![p] = [status |-> 401]]
           ELSE /\ pc' = [pc EXCEPT ![p] = "ruser"]
                /\ resp' = [resp EXCEPT ![p] = NoResp]
    /\ Spend
    /\ UNCHANGED <<users, coffees, coffeeSeq, now, issued, returned, expect>>

ReplaceUser(p) ==
    /\ UNCHANGED serviceVars
    /\ pc[p] = "ruser"
    /\ LET found == getUserByToken(users, req[p].token)
       IN IF found = {}
          THEN /\ Finish(p, [status |-> 401])
               /\ UNCHANGED req
          ELSE \E user \in found :
                 /\ req' = [req EXCEPT ![p].userId = user.id,
                                       ![p].old = Stored(coffees, user.id)]
                 /\ Goto(p, "rdelete")
    /\ UNCHANGED <<users, coffees, coffeeSeq, now, issued, returned, expect, budget>>

\* the response of a replace that has run its last statement
Saved(p) ==
    /\ Finish(p, [status |-> 200, saved |-> Len(ListOf(req[p].coffees))])
    /\ expect' = [u \in DOMAIN expect |->
                    IF u = req[p].userId THEN ListOf(req[p].coffees)
                    ELSE expect[u]]

ReplaceDelete(p) ==
    /\ UNCHANGED serviceVars
    /\ pc[p] = "rdelete"
    /\ coffees' = deleteUserCoffees(coffees, req[p].userId)
    /\ IF req[p].coffees # NoList /\ Len(req[p].coffees) > 0
       THEN Goto(p, "rinsert") /\ UNCHANGED expect
       ELSE Saved(p)
    /\ UNCHANGED <<users, coffeeSeq, now, req, issued, returned, budget>>

ReplaceInsert(p) ==
    /\ UNCHANGED serviceVars
    /\ pc[p] = "rinsert"
    /\ LET coffee == req[p].coffees[req[p].done + 1]
       IN coffees' = saveCoffee(coffees, coffeeSeq, now, req[p].userId,
                                JSONstringify(coffee))
    /\ coffeeSeq' = coffeeSeq + 1
    /\ req' = [req EXCEPT ![p].done = req[p].done + 1]
    /\ IF req[p].done + 1 = Len(req[p].coffees)
       THEN Saved(p)
       ELSE Goto(p, "rinsert") /\ UNCHANGED expect
    /\ UNCHANGED <<users, now, issued, returned, budget>>

\* --------------------------------------------------------------- clock
\* A second passes.  Timestamps are only stored by an insert and compared,
\* so seconds in which no row was stored are not represented.
Tick ==
    /\ UNCHANGED serviceVars
    /\ \E i \in DOMAIN coffees : coffees[i].created_at = now
    /\ now' = now + 1
    /\ UNCHANGED <<users, coffees, coffeeSeq, pc, req, resp, issued, returned,
                   expect, budget>>

\* ------------------------------------------------- HTTP request pipeline
\* The two express apps of the repository: "server" is src/server.js,
\* "legacy" is the app appended to src/db/database.js.
NumCallers == 2         \* caller addresses
MaxPipeRequests == 3    \* requests a run of the pipeline accepts

ApiMax == 100           \* apiLimiter: max
AiMax == 10             \* aiLimiter: max

Callers == 1..NumCallers

Limiters == {"api", "ai"}

Servers == {"server", "legacy"}

LimiterMax(l) == IF l = "api" THEN ApiMax ELSE AiMax

LimiterMessage(l) ==
    IF l = "api" THEN "Too many requests, please try again later."
    ELSE "AI analysis limit reached. Please try again in an hour."

\* mutant: the general limiter registered before the CORS check
AppUseLimiterFirst(server) ==
    IF server = "server" THEN <<"api", "cors", "json">> ELSE <<"cors", "json">>

\* app.use(...) in the order of registration
AppUse(server) ==
    IF server = "server" THEN <<"cors", "json", "api">> ELSE <<"cors", "json">>

\* the stage after the i-th middleware of the app
StageAfter(server, i) ==
    IF i < Len(AppUse(server)) THEN AppUse(server)[i + 1] ELSE "route"

StageIdx(server, stage) ==
    CHOOSE i \in DOMAIN AppUse(server) : AppUse(server)[i] = stage

\* the handler moves on to stage l
Pass(p, l) ==
    /\ pc' = [pc EXCEPT ![p] = l]
    /\ UNCHANGED resp

PassMiddleware(p, stage) == Pass(p, StageAfter(req[p].server, StageIdx(req[p].server, stage)))

Ran(p, stage) == [req EXCEPT ![p].path = Append(@, stage)]

\* app.use((err, req, res, next) => ...): the error handler of src/server.js;
\* the legacy app has none, express answers with the error's status
ErrorHandler(server, status) ==
    IF server = "server"
    THEN [status |-> 500, success |-> FALSE, error |-> "Internal server error"]
    ELSE [status |-> status]

NoReply == [ok |-> FALSE, none |-> TRUE]

Origins == {"none", "allowed", "other"}

Routes == {"analyze", "health", "outside"}

UnderApi(route) == route \in {"analyze", "health"}

\* req.body of an analyze request: imageData absent, empty or present;
\* "malformed" is a body express.json() cannot parse
Bodies == {"malformed", "absent", "empty", "image"}

\* The legacy app treats every caller and origin alike: its requests come
\* from caller 1 with an origin src/server.js does not allow.
PipeInputs ==
    {[server |-> "server", ip |-> ip, origin |-> origin] :
        ip \in Callers, origin \in Origins}
    \cup {[server |-> "legacy", ip |-> 1, origin |-> "other"]}

PipeStart(p) ==
    /\ CanStart(p)
    /\ \E in \in PipeInputs, route \in Routes :
       \E body \in (IF route = "analyze" THEN Bodies ELSE {"absent"}) :
          /\ req' = [req EXCEPT ![p] = [kind |-> route, server |-> in.server,
                                        ip |-> in.ip, origin |-> in.origin,
                                        body |-> body, path |-> <<>>,
                                        nth |-> [l \in Limiters |-> 0],
                                        calls |-> 0, reply |-> NoReply]]
          /\ pc' = [pc EXCEPT ![p] = AppUse(in.server)[1]]
    /\ resp' = [resp EXCEPT ![p] = NoResp]
    /\ Spend
    /\ UNCHANGED <<users, coffees, coffeeSeq, now, issued, returned, expect>>
    /\ UNCHANGED serviceVars

PipeFrame == UNCHANGED <<users, coffees, coffeeSeq, now, issued, returned, expect,
                         budget, sqlite, postgresql, results, db, dbType, phase>>

\* cors({origin: (origin, callback) => ...}) of src/server.js; cors() of the
\* legacy app allows every origin
CorsCheck(p) ==
    /\ pc[p] = "cors"
    /\ req' = Ran(p, "cors")
    /\ IF req[p].server = "legacy" \/ req[p].origin \in {"none", "allowed"}
       THEN PassMiddleware(p, "cors")
       ELSE Finish(p, ErrorHandler(req[p].server, 500))
    /\ UNCHANGED <<hits, seen, failures>>
    /\ PipeFrame

\* express.json({ limit: '10mb' })
JsonBody(p) ==
    /\ pc[p] = "json"
    /\ req' = Ran(p, "json")
    /\ IF req[p].body = "malformed"
       THEN Finish(p, ErrorHandler(req[p].server, 400))
       ELSE PassMiddleware(p, "json")
    /\ UNCHANGED <<hits, seen, failures>>
    /\ PipeFrame

\* mutant: one counter for all callers
keyGeneratorShared(r) == 1

\* express-rate-limit's default key: the caller's address
keyGenerator(r) == r.ip

\* rateLimit({windowMs, max, message}): the request is counted, and refused
\* at once when the count of its key exceeds max.  nth records the request
\* as the n-th of its caller to reach the limiter in the window.
RateLimit(p, l, next) ==
    LET key == keyGenerator(req[p])
        n == hits[l][key] + 1
    IN /\ hits' = [hits EXCEPT ![l][key] = n]
       /\ seen' = [seen EXCEPT ![l][req[p].ip] = @ + 1]
       /\ req' = [req EXCEPT ![p].path = Append(@, l),
                             ![p].nth[l] = seen[l][req[p].ip] + 1]
       /\ IF n > LimiterMax(l)
          THEN Finish(p, [status |-> 429, success |-> FALSE,
                          error |-> LimiterMessage(l)])
          ELSE Pass(p, next)

\* app.use('/api/', apiLimiter)
ApiLimit(p) ==
    /\ pc[p] = "api"
    /\ IF UnderApi(req[p].kind)
       THEN RateLimit(p, "api", StageAfter(req[p].server, StageIdx(req[p].server, "api")))
       ELSE /\ PassMiddleware(p, "api")
            /\ UNCHANGED <<hits, seen, req>>
    /\ UNCHANGED failures
    /\ PipeFrame

\* the routes of the app, and app.use((req, res) => ...404) after them
Route(p) ==
    /\ pc[p] = "route"
    /\ req' = Ran(p, "route")
    /\ CASE req[p].kind = "analyze" ->
              Pass(p, IF req[p].server = "server" THEN "ai" ELSE "analyze")
         [] req[p].kind = "health" -> Finish(p, [status |-> 200])
         [] OTHER -> Finish(p, [status |-> 404])
    /\ UNCHANGED <<hits, seen, failures>>
    /\ PipeFrame

\* app.post('/api/analyze-coffee', aiLimiter, ...)
AiLimit(p) ==
    /\ pc[p] = "ai"
    /\ RateLimit(p, "ai", "analyze")
    /\ UNCHANGED failures
    /\ PipeFrame

\* ------------------------------------------------ POST /api/analyze-coffee
\* A reply text is a sequence of tokens: words, braces, code fences and the
\* members of a JSON object.
LB == [t |-> "{"]

RB == [t |-> "}"]

Word(w) == [t |-> "word", w |-> w]

Fence(w) == [t |-> "fence", w |-> w]

Members(o) == [t |-> "members", m |-> o]

Full ==
    [name |-> "Kii", origin |-> "Kenya", process |-> "natural", cultivar |-> "SL28",
     altitude |-> "1800", roaster |-> "Drop", tastingNotes |-> "berry"]

OnlyName == [name |-> "Kii"]

Blank == [name |-> "", process |-> "honey", tastingNotes |-> "berry", lot |-> "7"]

EmptyObject == [k \in {} |-> ""]

ReplyTexts ==
    { <<Word("sorry")>>,
      <<RB, Word("no"), LB>>,
      <<LB, Word("oops"), RB>>,
      <<LB, RB>>,
      <<LB, Members(Full), RB>>,
      <<Word("here"), LB, Members(OnlyName), RB, Word("enjoy")>>,
      <<Fence("json"), LB, Members(Blank), RB, Fence("")>>,
      <<LB, Members(OnlyName), RB, Word("or"), LB, Members(Full), RB>> }

UpstreamErrors == {"invalid x-api-key", "Overloaded"}

\* what the external service answers: an error status with its message, or
\* a message whose content is a list of blocks
UpstreamReplies ==
    {[ok |-> FALSE, message |-> m] : m \in UpstreamErrors}
    \cup {[ok |-> TRUE, content |-> <<>>]}
    \cup {[ok |-> TRUE, content |-> <<[type |-> "text", text |-> t]>>] : t \in ReplyTexts}

NoMatch == <<>>

\* text.match(/\{[\s\S]*\}/): from the first "{" to the last "}" after it
match(text) ==
    LET opens == {i \in DOMAIN text : text[i] = LB}
        closes == {i \in DOMAIN text : text[i] = RB}
    IN IF opens = {} \/ closes = {} THEN NoMatch
       ELSE LET first == CHOOSE i \in opens : \A j \in opens : i <= j
                last == Max(closes)
            IN IF first < last THEN SubSeq(text, first, last) ELSE NoMatch

\* JSON.parse of a span that starts with "{" and ends with "}": the object,
\* or a SyntaxError whose message quotes the place where parsing stopped
JSONparseObject(span) ==
    IF Len(span) = 2 THEN [ok |-> TRUE, value |-> EmptyObject]
    ELSE IF span[2].t # "members"
    THEN [ok |-> FALSE, message |-> span[2].w]
    ELSE IF Len(span) > 3
    THEN [ok |-> FALSE, message |-> span[4].t]
    ELSE [ok |-> TRUE, value |-> span[2].m]

undefined == "undefined"

\* o[k] of a JavaScript object
Get(o, k) == IF k \in DOMAIN o THEN o[k] ELSE undefined

\* v || d
Or(v, d) == IF v \in {undefined, ""} THEN d ELSE v

Threw(message) == [threw |-> TRUE, message |-> message]

\* try block of src/server.js after the fetch
ServerAnalyze(reply, t) ==
    IF ~reply.ok THEN Threw(Or(reply.message, "API error"))
    ELSE IF reply.content = <<>> THEN Threw("Cannot read properties of undefined")
    ELSE LET jsonMatch == match(reply.content[1].text)
         IN IF jsonMatch = NoMatch THEN Threw("Could not parse coffee data")
            ELSE LET parsed == JSONparseObject(jsonMatch)
                 IN IF ~parsed.ok THEN Threw(parsed.message)
                    ELSE LET coffeeData == parsed.value
                         IN [threw |-> FALSE,
                             data |->
                               [name |-> Or(Get(coffeeData, "name"), "Unknown"),
                                origin |-> Or(Get(coffeeData, "origin"), "Unknown"),
                                process |-> Or(Get(coffeeData, "process"), "washed"),
                                cultivar |-> Or(Get(coffeeData, "cultivar"), "Unknown"),
                                altitude |-> Or(Get(coffeeData, "altitude"), "1500"),
                                roaster |-> Or(Get(coffeeData, "roaster"), "Unknown"),
                                tastingNotes |-> Or(Get(coffeeData, "tastingNotes"), "No notes"),
                                addedDate |-> t]]

\* the message of the error anthropic.messages.create throws on an error
\* status: the status and the message of the external service
SdkMessage(m) == IF m = "Overloaded" THEN "529 Overloaded" ELSE "401 invalid x-api-key"

\* responseText.replace(...).replace(...): the code fences removed
StripFences(text) == SelectSeq(text, LAMBDA tok : tok.t # "fence")

\* try block of the legacy app after the call of the external service
LegacyAnalyze(reply) ==
    IF ~reply.ok THEN Threw(SdkMessage(reply.message))
    ELSE IF reply.content = <<>> THEN Threw("No text response from Claude")
    ELSE LET jsonMatch == match(StripFences(reply.content[1].text))
         IN IF jsonMatch = NoMatch THEN Threw("Invalid response format from Claude")
            ELSE LET parsed == JSONparseObject(jsonMatch)
                 IN IF ~parsed.ok THEN Threw(parsed.message)
                    ELSE [threw |-> FALSE, data |-> parsed.value]

\* catch (error) of each handler
AnalyzeCatch(server, error) ==
    IF server = "server"
    THEN [status |-> 500, success |-> FALSE,
          error |-> "Analysis failed. Please try again."]
    ELSE [status |-> 500, success |-> FALSE,
          error |-> Or(error.message, "Failed to analyze coffee image")]

\* mutant: the check of imageData lost
AnalyzeStartNoCheck(p) ==
    /\ pc[p] = "analyze"
    /\ req' = Ran(p, "analyze")
    /\ Pass(p, "fetch")
    /\ UNCHANGED <<hits, seen, failures>>
    /\ PipeFrame

\* if (!imageData) return res.status(400)...
AnalyzeStart(p) ==
    /\ pc[p] = "analyze"
    /\ req' = Ran(p, "analyze")
    /\ IF req[p].body \in {"absent", "empty"}
       THEN Finish(p, IF req[p].server = "server"
                      THEN [status |-> 400, success |-> FALSE,
                            error |-> "Image data required"]
                      ELSE [status |-> 400, error |-> "No image data provided"])
       ELSE Pass(p, "fetch")
    /\ UNCHANGED <<hits, seen, failures>>
    /\ PipeFrame

\* await fetch('https://api.anthropic.com/v1/messages', ...), and
\* await anthropic.messages.create(...) of the legacy app
AnalyzeFetch(p) ==
    /\ pc[p] = "fetch"
    /\ \E reply \in UpstreamReplies :
          req' = [req EXCEPT ![p].calls = @ + 1, ![p].reply = reply,
                             ![p].path = Append(@, "fetch")]
    /\ Pass(p, "reply")
    /\ UNCHANGED <<hits, seen, failures>>
    /\ PipeFrame

NoFailure == [status |-> 0]

AnalyzeReply(p) ==
    /\ pc[p] = "reply"
    /\ LET server == req[p].server
           out == IF server = "server" THEN ServerAnalyze(req[p].reply, now)
                  ELSE LegacyAnalyze(req[p].reply)
       IN IF out.threw
          THEN /\ Finish(p, AnalyzeCatch(server, out))
               /\ failures' = [failures EXCEPT ![server] =
                                 IF @ = NoFailure THEN AnalyzeCatch(server, out) ELSE @]
          ELSE /\ Finish(p, [status |-> 200, success |-> TRUE, data |-> out.data])
               /\ UNCHANGED failures
    /\ req' = Ran(p, "reply")
    /\ UNCHANGED <<hits, seen>>
    /\ PipeFrame

\* The window of a key ends: its counter starts again at 0.  A request meets
\* each limiter once, so the end of a window during a request acts as one
\* before or after it.
WindowReset ==
    /\ \A p \in Procs : Free(p)
    /\ \E l \in Limiters, key \in Callers :
          /\ hits[l][key] > 0
          /\ hits' = [hits EXCEPT ![l][key] = 0]
          /\ seen' = [seen EXCEPT ![l] =
                        [c \in Callers |->
                            IF keyGenerator([ip |-> c]) = key THEN 0 ELSE seen[l][c]]]
    /\ UNCHANGED <<pc, req, resp, failures>>
    /\ PipeFrame

\* ------------------------------------------ queries of src/db/database.js
\* Every helper runs one statement on the backend dbType names.  A backend
\* is its two tables and the two id sequences; a JavaScript value is a
\* record that names its type.
MaxDualWrites == 3      \* statements that write, in one run of both backends

DbTypes == {"sqlite", "postgresql"}

EmptyBackend == [users |-> <<>>, coffees |-> <<>>, userSeq |-> 0, coffeeSeq |-> 0]

JsUndefined == [js |-> "undefined"]

JsNull == [js |-> "null"]

JsNumber(n) == [js |-> "number", n |-> n]

\* the decimal digits of n
JsString(n) == [js |-> "string", n |-> n]

JsBoolean(b) == [js |-> "boolean", b |-> b]

JsError(code) == [js |-> "error", code |-> code]

Outcome(b, result) == [backend |-> b, result |-> result]

\* db.get(sql, params): the first row; without a row sqlite's get resolves to
\* undefined, the PostgreSQL wrapper to result.rows[0] || null
dbGet(type, rows) ==
    IF rows # {} THEN CHOOSE r \in rows : TRUE
    ELSE IF type = "postgresql" THEN JsNull ELSE JsUndefined

\* SELECT id, username, created_at FROM users WHERE token = ?
queriesGetUserByToken(type, b, token) ==
    Outcome(b, dbGet(type, {[js |-> "row", id |-> u.id, username |-> u.username] :
                              u \in getUserByToken(b.users, token)}))

\* An INSERT draws its id from the sequence before the constraints are
\* checked: a SERIAL sequence keeps the value drawn by a failed INSERT, an
\* AUTOINCREMENT counter moves only with a stored row.
SeqAfterFailure(type, seq) == IF type = "postgresql" THEN seq + 1 ELSE seq

\* INSERT INTO users (username, token) VALUES (?, ?) [RETURNING id]
queriesCreateUser(type, b, username, token) ==
    LET id == b.userSeq + 1
    IN IF UsersUniqueOk(b.users, username, token)
       THEN Outcome([b EXCEPT !.users = Append(@, [id |-> id, username |-> username,
                                                   token |-> token]),
                              !.userSeq = id],
                    JsNumber(id))
       ELSE Outcome([b EXCEPT !.userSeq = SeqAfterFailure(type, @)],
                    JsError("UNIQUE"))

\* SELECT COUNT(*) as count FROM users: COUNT(*) is an INTEGER in SQLite and
\* a bigint in PostgreSQL, which pg hands over as a string
queriesGetUserCount(type, b) ==
    Outcome(b, IF type = "postgresql" THEN JsString(getUserCount(b.users))
               ELSE JsNumber(getUserCount(b.users)))

\* SELECT id FROM users WHERE LOWER(username) = LOWER(?); return !!result
queriesUsernameExists(type, b, username) ==
    Outcome(b, JsBoolean(usernameExists(b.users, username)))

\* SELECT id, data, created_at FROM coffees WHERE user_id = ? ORDER BY
\* created_at DESC: the orders of the rows the statement allows
queriesGetUserCoffees(type, b, userId) ==
    Outcome(b, [js |-> "rows", orders |-> getUserCoffees(b.coffees, userId)])

\* FOREIGN KEY (user_id) REFERENCES users(id): PostgreSQL checks it; SQLite
\* checks foreign keys only after PRAGMA foreign_keys = ON, which is never run
ForeignKeyOk(type, b, userId) ==
    type = "sqlite" \/ \E i \in DOMAIN b.users : b.users[i].id = userId

\* INSERT INTO coffees (user_id, data) VALUES (?, ?) [RETURNING id]
queriesSaveCoffee(type, b, t, userId, data) ==
    IF ForeignKeyOk(type, b, userId)
    THEN Outcome([b EXCEPT !.coffees = saveCoffee(@, b.coffeeSeq, t, userId, data),
                           !.coffeeSeq = @ + 1],
                 JsNumber(b.coffeeSeq + 1))
    ELSE Outcome([b EXCEPT !.coffeeSeq = SeqAfterFailure(type, @)],
                 JsError("FOREIGN KEY"))

\* DELETE FROM coffees WHERE user_id = ?
queriesDeleteUserCoffees(type, b, userId) ==
    Outcome([b EXCEPT !.coffees = deleteUserCoffees(@, userId)], JsUndefined)

\* one helper called with the same arguments on both backends
Both(op, lite, pg) ==
    /\ sqlite' = lite.backend
    /\ postgresql' = pg.backend
    /\ results' = [op |-> op, sqlite |-> lite.result, postgresql |-> pg.result]

DualFrame == UNCHANGED <<users, coffees, coffeeSeq, pc, req, resp, issued, returned,
                         expect, hits, seen, failures, db, dbType, phase>>

DualTokens == {1, 2}

DualNames == {Name(1), Name(2), UPPER(Name(1))}

DualUserIds == {1, 2}

DualData == {JSONstringify(CoffeeX)}

CanWrite == budget > 0

DualCreateUser ==
    /\ CanWrite
    /\ \E username \in DualNames, token \in DualTokens :
          Both("createUser", queriesCreateUser("sqlite", sqlite, username, token),
               queriesCreateUser("postgresql", postgresql, username, token))
    /\ Spend
    /\ UNCHANGED now
    /\ DualFrame

DualGetUserByToken ==
    /\ \E token \in DualTokens :
          Both("getUserByToken", queriesGetUserByToken("sqlite", sqlite, token),
               queriesGetUserByToken("postgresql", postgresql, token))
    /\ UNCHANGED <<now, budget>>
    /\ DualFrame

DualGetUserCount ==
    /\ Both("getUserCount", queriesGetUserCount("sqlite", sqlite),
            queriesGetUserCount("postgresql", postgresql))
    /\ UNCHANGED <<now, budget>>
    /\ DualFrame

DualUsernameExists ==
    /\ \E username \in DualNames :
          Both("usernameExists", queriesUsernameExists("sqlite", sqlite, username),
               queriesUsernameExists("postgresql", postgresql, username))
    /\ UNCHANGED <<now, budget>>
    /\ DualFrame

DualGetUserCoffees ==
    /\ \E userId \in DualUserIds :
          Both("getUserCoffees", queriesGetUserCoffees("sqlite", sqlite, userId),
               queriesGetUserCoffees("postgresql", postgresql, userId))
    /\ UNCHANGED <<now, budget>>
    /\ DualFrame

DualSaveCoffee ==
    /\ CanWrite
    /\ \E userId \in DualUserIds, data \in DualData :
          Both("saveCoffee", queriesSaveCoffee("sqlite", sqlite, now, userId, data),
               queriesSaveCoffee("postgresql", postgresql, now, userId, data))
    /\ Spend
    /\ UNCHANGED now
    /\ DualFrame

DualDeleteUserCoffees ==
    /\ CanWrite
    /\ \E userId \in DualUserIds :
          Both("deleteUserCoffees", queriesDeleteUserCoffees("sqlite", sqlite, userId),
               queriesDeleteUserCoffees("postgresql", postgresql, userId))
    /\ Spend
    /\ UNCHANGED now
    /\ DualFrame

\* CURRENT_TIMESTAMP moves on to the next second
DualTick ==
    /\ \E i \in DOMAIN sqlite.coffees : sqlite.coffees[i].created_at = now
    /\ now' = now + 1
    /\ UNCHANGED <<budget, sqlite, postgresql, results>>
    /\ DualFrame

NoResults == [op |-> "none", sqlite |-> JsUndefined, postgresql |-> JsUndefined]

\* ---------------------------------- connection of src/db/database.js
\* let db = null; let dbType = null
Null == [kind |-> "null"]

NoType == "null"

Handle(type) == [kind |-> type]

NotInitialized == [threw |-> TRUE, message |-> "Database not initialized"]

Returned(value) == [threw |-> FALSE, value |-> value]

LifeFrame == UNCHANGED <<users, coffees, coffeeSeq, now, issued, returned, expect,
                         budget, hits, seen, failures, sqlite, postgresql, results>>

\* slot 1 calls initDatabase and closeDatabase, one call after the other;
\* slot 2 calls getDatabase and the query helpers at any moment
Caller == 1

Observer == 2

\* initDatabase() up to its first await: the backend is chosen by NODE_ENV
\* and DATABASE_URL, dbType is set
InitStart ==
    /\ Free(Caller)
    /\ \E type \in DbTypes :
          /\ req' = [req EXCEPT ![Caller] = [kind |-> "init", type |-> type]]
          /\ dbType' = type
          /\ pc' = [pc EXCEPT ![Caller] =
                      IF type = "postgresql" THEN "connect" ELSE "open"]
    /\ resp' = [resp EXCEPT ![Caller] = NoResp]
    /\ UNCHANGED <<db, phase>>
    /\ LifeFrame

\* await pool.query('SELECT NOW()'): on failure the error is thrown again;
\* on success db becomes the wrapper and the tables come next
InitConnect ==
    /\ pc[Caller] = "connect"
    /\ \E reachable \in BOOLEAN :
          IF reachable
          THEN /\ db' = Handle("postgresql")
               /\ Pass(Caller, "tables")
          ELSE /\ Finish(Caller, [threw |-> TRUE, message |-> "connection failed"])
               /\ UNCHANGED db
    /\ UNCHANGED <<req, dbType, phase>>
    /\ LifeFrame

\* db = await open({filename, driver})
InitOpen ==
    /\ pc[Caller] = "open"
    /\ db' = Handle("sqlite")
    /\ Pass(Caller, "tables")
    /\ UNCHANGED <<req, dbType, phase>>
    /\ LifeFrame

\* await createPostgreSQLTables() / createSQLiteTables(); return { db, dbType }
InitTables ==
    /\ pc[Caller] = "tables"
    /\ Finish(Caller, Returned([db |-> db, dbType |-> dbType]))
    /\ phase' = "initialized"
    /\ UNCHANGED <<req, db, dbType>>
    /\ LifeFrame

\* closeDatabase() up to its await: db.pool.end() or db.close(), by dbType;
\* a handle that is not of the kind dbType names has no such method, the
\* call throws a TypeError
CloseStart ==
    /\ Free(Caller)
    /\ req' = [req EXCEPT ![Caller] = [kind |-> "close"]]
    /\ IF db # Null /\ dbType \in DbTypes
       THEN IF db.kind = dbType
            THEN /\ pc' = [pc EXCEPT ![Caller] = "closing"]
                 /\ resp' = [resp EXCEPT ![Caller] = NoResp]
                 /\ UNCHANGED <<db, dbType, phase>>
            ELSE /\ Finish(Caller, [threw |-> TRUE, message |-> "TypeError"])
                 /\ phase' = "closed"
                 /\ UNCHANGED <<db, dbType>>
       ELSE /\ Finish(Caller, Returned(Null))
            /\ db' = Null
            /\ dbType' = NoType
            /\ phase' = "closed"
    /\ LifeFrame

\* after the await: db = null; dbType = null
CloseEnd ==
    /\ pc[Caller] = "closing"
    /\ Finish(Caller, Returned(Null))
    /\ db' = Null
    /\ dbType' = NoType
    /\ phase' = "closed"
    /\ UNCHANGED req
    /\ LifeFrame

Observed(kind) ==
    [kind |-> kind, phase |-> phase, during |-> pc[Caller]]

\* getDatabase(): if (!db) throw ...; return db
GetDatabase ==
    /\ Free(Observer)
    /\ req' = [req EXCEPT ![Observer] = Observed("getDatabase")]
    /\ Finish(Observer, IF db = Null THEN NotInitialized ELSE Returned(db))
    /\ UNCHANGED <<db, dbType, phase>>
    /\ LifeFrame

\* queries.*: const db = getDatabase(), then the statement in the dialect
\* dbType names
Query ==
    /\ Free(Observer)
    /\ req' = [req EXCEPT ![Observer] = Observed("query")]
    /\ Finish(Observer, IF db = Null THEN NotInitialized
                        ELSE Returned([db |-> db, dbType |-> dbType]))
    /\ UNCHANGED <<db, dbType, phase>>
    /\ LifeFrame

\* ------------------------------------------------------- specifications
\* The store is a file that outlives the server: at start-up the users
\* table holds the users of earlier runs, registered one after another.
SeedUsers(n) == [i \in 1..n |-> [id |-> i, username |-> Name(i), token |-> i]]

\* the state outside the store before any request
PipeIdle ==
    /\ hits = [l \in Limiters |-> [c \in Callers |-> 0]]
    /\ seen = [l \in Limiters |-> [c \in Callers |-> 0]]
    /\ failures = [s \in Servers |-> NoFailure]

DualIdle ==
    /\ sqlite = EmptyBackend
    /\ postgresql = EmptyBackend
    /\ results = NoResults

LifeIdle ==
    /\ db = Null
    /\ dbType = NoType
    /\ phase = "uninitialized"

StoreWith(n, b) ==
    /\ users = SeedUsers(n)
    /\ coffees = <<>>
    /\ coffeeSeq = 0
    /\ now = 0
    /\ pc = [p \in Procs |-> "idle"]
    /\ req = [p \in Procs |-> Idle]
    /\ resp = [p \in Procs |-> NoResp]
    /\ issued = {i : i \in 1..n}
    /\ returned = {SeedUsers(n)[i] : i \in 1..n}
    /\ expect = [u \in 1..MaxCoffeeUsers |-> <<>>]
    /\ budget = b

InitWith(n, b) == StoreWith(n, b) /\ PipeIdle /\ DualIdle /\ LifeIdle

Step(p) ==
    \/ RegisterStart(p)
    \/ RegisterCount(p)
    \/ RegisterLookup(p)
    \/ RegisterInsert(p)
    \/ RegisterRecount(p)
    \/ ValidateStart(p)
    \/ ValidateUser(p)
    \/ ListStart(p)
    \/ ListUser(p)
    \/ ListAll(p)
    \/ ReplaceStart(p)
    \/ ReplaceUser(p)
    \/ ReplaceDelete(p)
    \/ ReplaceInsert(p)

\* concurrent requests on a store of any size, MaxRequests requests a run
Init == \E n \in 0..MaxUsers : InitWith(n, MaxRequests)

Next == Tick \/ \E p \in Procs : Step(p)

Spec == Init /\ [][Next]_vars

\* one request at a time, any number of them, on a store with one place left
InitSeq == InitWith(MaxUsers - 1, Unlimited)

NextSeq == Tick \/ Step(1)

SpecSeq == InitSeq /\ [][NextSeq]_vars

\* registration alone, one request at a time, from the empty store
InitReg == InitWith(0, Unlimited)

NextReg ==
    \/ RegisterStart(1)
    \/ RegisterCount(1)
    \/ RegisterLookup(1)
    \/ RegisterInsert(1)
    \/ RegisterRecount(1)
    \/ ValidateStart(1)
    \/ ValidateUser(1)

SpecReg == InitReg /\ [][NextReg]_vars

\* the request pipeline of both apps, one request at a time; the rate
\* limiters start a run with the counters of a window of caller 1 under way
HitSeeds ==
    {[l \in Limiters |-> [c \in Callers |-> IF c = 1 THEN n[l] ELSE 0]] :
        n \in {[api |-> a, ai |-> b] : a \in {0, ApiMax - 1}, b \in {0, AiMax - 1}}}

InitPipe ==
    /\ StoreWith(0, MaxPipeRequests)
    /\ hits \in HitSeeds
    /\ seen = hits
    /\ failures = [s \in Servers |-> NoFailure]
    /\ DualIdle
    /\ LifeIdle

NextPipe ==
    \/ PipeStart(1)
    \/ CorsCheck(1)
    \/ JsonBody(1)
    \/ ApiLimit(1)
    \/ Route(1)
    \/ AiLimit(1)
    \/ AnalyzeStart(1)
    \/ AnalyzeFetch(1)
    \/ AnalyzeReply(1)
    \/ WindowReset

SpecPipe == InitPipe /\ [][NextPipe]_vars

\* the query helpers of src/db/database.js, every call made on both backends
InitDual ==
    /\ StoreWith(0, MaxDualWrites)
    /\ PipeIdle
    /\ DualIdle
    /\ LifeIdle

NextDual ==
    \/ DualCreateUser
    \/ DualGetUserByToken
    \/ DualGetUserCount
    \/ DualUsernameExists
    \/ DualGetUserCoffees
    \/ DualSaveCoffee
    \/ DualDeleteUserCoffees
    \/ DualTick

SpecDual == InitDual /\ [][NextDual]_vars

\* the connection handle of src/db/database.js
InitLife ==
    /\ StoreWith(0, Unlimited)
    /\ PipeIdle
    /\ DualIdle
    /\ LifeIdle

NextLife ==
    \/ InitStart
    \/ InitConnect
    \/ InitOpen
    \/ InitTables
    \/ CloseStart
    \/ CloseEnd
    \/ GetDatabase
    \/ Query

SpecLife == InitLife /\ [][NextLife]_vars

\* ------------------------------------------------------------ properties
Done(p, kind) == pc[p] = "done" /\ req[p].kind = kind

IsPrefixPlusOne(old, new) ==
    Len(new) = Len(old) + 1 /\ SubSeq(new, 1, Len(old)) = old

LowerNames(us) == {LOWER(us[i].username) : i \in DOMAIN us}

\* C1: the users table never holds more than 10 users, however concurrent
\* register requests interleave.
C1_AtMostTenUsers == Len(users) <= 10

\* C2: no two stored users have usernames that are equal after lower-casing,
\* however concurrent register requests interleave.
C2_CaseInsensitiveUnique ==
    \A i, j \in DOMAIN users :
        i # j => LOWER(users[i].username) # LOWER(users[j].username)

\* C3: from the empty store, one register after another with a valid username
\* nobody holds: the k-th succeeds for k = 1..10 with spotsRemaining = 10 - k
\* (9, 8, ..., 0, never negative); with 10 users stored every register with a
\* valid username fails with 403 and spotsRemaining 0, whatever the username.
C3_RegistrationUpToTen ==
    (Done(1, "register") /\ Len(trim(req[1].username)) >= 2) =>
        LET k == Len(req[1].pre) + 1
            taken == LOWER(trim(req[1].username)) \in LowerNames(req[1].pre)
        IN /\ (k <= 10 /\ ~taken) =>
                /\ resp[1].status = 200
                /\ resp[1].user.id = k
                /\ resp[1].spotsRemaining = 10 - k
                /\ resp[1].spotsRemaining >= 0
                /\ Len(users) = k
           /\ k > 10 =>
                /\ resp[1].status = 403
                /\ resp[1].spotsRemaining = 0
                /\ users = req[1].pre

\* the 11th register, with a name nobody holds, was refused
C3_Witness ==
    /\ Done(1, "register")
    /\ resp[1].status = 403
    /\ Len(req[1].pre) = 10
    /\ LOWER(trim(req[1].username)) \notin LowerNames(req[1].pre)

\* C4: a token returned by a successful register resolves to the same id and
\* trimmed username in every later state; a validate with such a token answers
\* 200 with that id and username; a validate with a token no register stored
\* answers 401 with valid false; distinct users have distinct tokens.
C4_TokenResolves ==
    /\ \A r \in returned :
          /\ r.username = trim(r.username)
          /\ \A u \in getUserByToken(users, r.token) :
                u.id = r.id /\ u.username = r.username
          /\ getUserByToken(users, r.token) # {}
    /\ \A i, j \in DOMAIN users : i # j => users[i].token # users[j].token
    /\ Done(1, "validate") /\ req[1].token # NoToken =>
          /\ req[1].token \notin issued =>
                resp[1].status = 401 /\ resp[1].valid = FALSE
          /\ \A r \in returned : r.token = req[1].token =>
                /\ resp[1].status = 200
                /\ resp[1].valid = TRUE
                /\ resp[1].user = [id |-> r.id, username |-> r.username]

\* a validate answered 200 for the token of a user registered in this run,
\* after that user saved coffees
C4_Witness ==
    /\ Done(1, "validate")
    /\ resp[1].status = 200
    /\ resp[1].user.id = 10
    /\ \E r \in returned : r.id = 10 /\ r.token = req[1].token
    /\ coffees # <<>>

\* C5: register checks in the order: missing or short username (400, even when
\* the store is full), then 10 users stored (403 with spotsRemaining 0, even
\* when the username is taken), then a case-insensitive match (409); each
\* failure leaves the users table unchanged, and otherwise exactly one user is
\* inserted.
C5_RegisterFailureOrder ==
    Done(1, "register") =>
        LET username == req[1].username
            pre == req[1].pre
            short == username = <<>> \/ Len(trim(username)) < 2
            full == Len(pre) >= 10
            taken == LOWER(trim(username)) \in LowerNames(pre)
        IN /\ short => resp[1].status = 400
           /\ (~short /\ full) =>
                 resp[1].status = 403 /\ resp[1].spotsRemaining = 0
           /\ (~short /\ ~full /\ taken) => resp[1].status = 409
           /\ (~short /\ ~full /\ ~taken) => resp[1].status = 200
           /\ resp[1].status # 200 => users = pre
           /\ resp[1].status = 200 =>
                 /\ IsPrefixPlusOne(pre, users)
                 /\ users[Len(users)].username = trim(username)

\* a register with a taken username was refused for capacity, not for conflict
C5_Witness ==
    /\ Done(1, "register")
    /\ resp[1].status = 403
    /\ LOWER(trim(req[1].username)) \in LowerNames(req[1].pre)

\* the records of a response are the elements of a list, one for one
SameRecords(records, list, Match(_, _)) ==
    /\ Len(records) = Len(list)
    /\ \E f \in Permutations(1..Len(list)) :
          \A i \in 1..Len(list) : Match(records[i], list[f[i]])

NewestFirst(records) ==
    \A i, j \in DOMAIN records :
        i < j => records[i].savedAt >= records[j].savedAt

ContentEqual(record, coffee) ==
    \A k \in DOMAIN coffee : record[k] = coffee[k]

EqualButSavedAt(record, coffee) ==
    /\ DOMAIN record = DOMAIN coffee \cup {"id", "savedAt"}
    /\ \A k \in DOMAIN coffee \ {"savedAt"} : record[k] = coffee[k]

\* C6 as claimed: after a completed replaceCoffees(token, L), with no other
\* request of that user in between, listCoffees(token) returns exactly the
\* elements of L: one record per element, every field of the element with the
\* element's value, newest-saved first; replaceCoffees returns saved = Len(L).
C6_ListReturnsExactlyL ==
    /\ (Done(1, "replace") /\ resp[1].status = 200) =>
          resp[1].saved = Len(ListOf(req[1].coffees))
    /\ (Done(1, "list") /\ resp[1].status = 200) =>
          /\ SameRecords(resp[1].coffees, expect[req[1].userId], ContentEqual)
          /\ NewestFirst(resp[1].coffees)

\* C6 amended: as C6, but an element's savedAt field is not returned: every
\* record carries the element's fields other than savedAt unchanged, an id
\* (the element's own if it has one) and, as savedAt, its save timestamp.
C6_ListReturnsLButSavedAt ==
    /\ (Done(1, "replace") /\ resp[1].status = 200) =>
          resp[1].saved = Len(ListOf(req[1].coffees))
    /\ (Done(1, "list") /\ resp[1].status = 200) =>
          /\ SameRecords(resp[1].coffees, expect[req[1].userId], EqualButSavedAt)
          /\ NewestFirst(resp[1].coffees)
          /\ \A i \in DOMAIN resp[1].coffees : resp[1].coffees[i].savedAt >= 0

\* a list of two coffees saved in different seconds came back newest first
C6_Witness ==
    /\ Done(1, "list")
    /\ resp[1].status = 200
    /\ expect[req[1].userId] = <<CoffeeY, CoffeeX>>
    /\ Len(resp[1].coffees) = 2
    /\ resp[1].coffees[1].name = "X"
    /\ resp[1].coffees[1].savedAt > resp[1].coffees[2].savedAt

\* C7: once no replaceCoffees of a user is in flight, the user's stored list
\* is exactly the list of the replaceCoffees that completed last, also when
\* two of them ran concurrently: never a merge of both.
C7_LastWriterWins ==
    \A u \in DOMAIN expect :
        (\A p \in Procs : ~(InReplace(p) /\ req[p].userId = u))
        => Stored(coffees, u) = expect[u]

\* C8: replaceCoffees is atomic: in every state another request can observe
\* (or a crash can leave behind) while its inserts are pending, the user's
\* stored list is the complete previous list or the complete new list.
C8_ReplaceAtomic ==
    \A p \in Procs :
        (req[p].kind = "replace" /\ pc[p] = "rinsert")
        => Stored(coffees, req[p].userId)
              \in {req[p].old, ListOf(req[p].coffees)}

RowsOfOthers(cs, userId) == SelectSeq(cs, LAMBDA c : c.user_id # userId)

\* the delete statement of the replace in slot 1 has just run
DeleteJustRan ==
    /\ req[1].kind = "replace"
    /\ \/ pc[1] = "rinsert" /\ req[1].done = 0
       \/ pc[1] = "done" /\ resp[1].status = 200 /\ ListOf(req[1].coffees) = <<>>

\* C9: deleting the coffees of user u removes every record of u and leaves
\* the records of every other user and the users table as they were;
\* afterwards getUserCoffees(u) is empty.
C9_DeleteFrame ==
    DeleteJustRan =>
        /\ \A i \in DOMAIN coffees : coffees[i].user_id # req[1].userId
        /\ coffees = RowsOfOthers(req[1].pre[2], req[1].userId)
        /\ users = req[1].pre[1]
        /\ getUserCoffees(coffees, req[1].userId) = {<<>>}

\* a delete removed the records of a user and left those of another
C9_Witness ==
    /\ DeleteJustRan
    /\ req[1].old # <<>>
    /\ coffees # <<>>

\* C10: listCoffees and replaceCoffees without a token, or with a token that
\* matches no user, answer 401 without coffee data and leave both tables
\* unchanged; replaceCoffees deletes nothing before it has resolved the token.
C10_Unauthorized ==
    /\ \A kind \in {"list", "replace"} :
          (/\ Done(1, kind)
           /\ \A i \in DOMAIN req[1].pre[1] : req[1].pre[1][i].token # req[1].token)
          => /\ resp[1] = [status |-> 401]
             /\ users = req[1].pre[1]
             /\ coffees = req[1].pre[2]
    /\ (req[1].kind = "replace" /\ pc[1] = "ruser") =>
          coffees = req[1].pre[2] /\ users = req[1].pre[1]

\* a replace with a token of no user was refused while coffees were stored
C10_Witness ==
    /\ Done(1, "replace")
    /\ req[1].token # NoToken
    /\ resp[1].status = 401
    /\ ListOf(req[1].coffees) # <<>>
    /\ coffees # <<>>

\* ------------------------------------------- properties of the pipeline
Seven == {"name", "origin", "process", "cultivar", "altitude", "roaster", "tastingNotes"}

ReachedHandler(p) == "analyze" \in Range(req[p].path)

\* C11: an analyze request that got past the missing-image check and failed
\* (error status of the external service, reply without a {...} span, span
\* that is no JSON) is answered 500 with the same body as every other such
\* failure of the same handler, whatever the upstream message or reply was.
C11_GenericFailure ==
    (Done(1, "analyze") /\ req[1].calls = 1 /\ resp[1].status # 200) =>
        /\ resp[1].status = 500
        /\ resp[1] = failures[req[1].server]

\* C12: an analyze request without imageData makes no call of the external
\* service and, when it reaches the handler, is answered 400; no analyze
\* request makes more than one call, and only a request with imageData that
\* reached the handler makes one.
C12_NoImageNoCall ==
    req[1].kind = "analyze" =>
        /\ req[1].calls <= 1
        /\ req[1].calls = 1 => req[1].body = "image" /\ ReachedHandler(1)
        /\ req[1].body \in {"absent", "empty"} =>
              /\ req[1].calls = 0
              /\ pc[1] \notin {"fetch", "reply"}
              /\ (pc[1] = "done" /\ ReachedHandler(1)) => resp[1].status = 400

\* src/server.js refused a request without imageData, after the legacy
\* handler had made its call for a request with imageData
C12_Witness ==
    /\ Done(1, "analyze")
    /\ req[1].server = "server"
    /\ req[1].body = "absent"
    /\ resp[1].status = 400
    /\ failures["legacy"] # NoFailure

ClaimedDefault(k) ==
    IF k = "process" THEN "washed" ELSE IF k = "altitude" THEN "1500" ELSE "Unknown"

\* the object the reply of the external service holds
ParsedOf(p) == JSONparseObject(match(req[p].reply.content[1].text)).value

\* C13: the data of a successful analyze has all seven fields and addedDate;
\* a field the parsed object has is returned unchanged, a field it lacks is
\* "washed" for process, "1500" for altitude and "Unknown" for the others.
C13_DefaultsAsClaimed ==
    (Done(1, "analyze") /\ resp[1].status = 200) =>
        LET data == resp[1].data
            parsed == ParsedOf(1)
        IN /\ Seven \cup {"addedDate"} \subseteq DOMAIN data
           /\ \A k \in Seven :
                 data[k] = IF k \in DOMAIN parsed THEN parsed[k] ELSE ClaimedDefault(k)

ByCors(p) ==
    /\ pc[p] = "done"
    /\ req[p].origin = "other"
    /\ resp[p] = [status |-> 500, success |-> FALSE, error |-> "Internal server error"]

ByLimiter(p, l) ==
    /\ pc[p] = "done"
    /\ resp[p] = [status |-> 429, success |-> FALSE, error |-> LimiterMessage(l)]

OnServer(p) == req[p].kind \in Routes /\ req[p].server = "server"

\* C15 as claimed: a request passes rate limiting, then the CORS check, then
\* its route handler: a request the CORS check rejected has been counted by
\* the general limiter, and a request the general limiter rejected never
\* reached the CORS check.
C15_LimiterBeforeCors ==
    (OnServer(1) /\ UnderApi(req[1].kind)) =>
        /\ ByCors(1) => req[1].nth["api"] > 0
        /\ ByLimiter(1, "api") => "cors" \notin Range(req[1].path)

\* C15 amended: a request to the app of src/server.js passes the CORS check,
\* then the JSON body parser, then (under /api/) the general rate limiter,
\* then its route handler: a request from an origin that is not allowed is
\* answered 500 by the error handler and is counted by no limiter, and a
\* rate-limited request has passed the CORS check.
C15_CorsBeforeLimiter ==
    OnServer(1) =>
        /\ req[1].origin = "other" =>
              /\ \A l \in Limiters : req[1].nth[l] = 0
              /\ pc[1] \in {"cors", "done"}
              /\ pc[1] = "done" => ByCors(1)
        /\ (\E l \in Limiters : ByLimiter(1, l)) =>
              req[1].origin # "other" /\ "cors" \in Range(req[1].path)
        /\ "route" \in Range(req[1].path) =>
              SubSeq(req[1].path, 1, 3) =
                 IF UnderApi(req[1].kind) THEN <<"cors", "json", "api">>
                 ELSE <<"cors", "json", "route">>

\* a request of a caller one short of the general quota was rejected by the
\* CORS check and left the caller's counter as it was
C15_Witness ==
    /\ OnServer(1)
    /\ UnderApi(req[1].kind)
    /\ ByCors(1)
    /\ req[1].ip = 1
    /\ hits["api"][1] = ApiMax - 1

\* C16: on src/server.js each limiter counts per caller address: an analyze
\* request reaches its handler (and the external service) only as one of the
\* first 100 requests of its caller in the general window and one of the first
\* 10 in the AI window; a request over either quota is answered 429 with the
\* limiter's message in that very step, never waits, and makes no external
\* call; a request is never rejected on account of another caller's requests.
C16_RateLimits ==
    (OnServer(1) /\ req[1].kind = "analyze") =>
        LET nth == req[1].nth
        IN /\ (ReachedHandler(1) \/ req[1].calls > 0) =>
                 /\ nth["api"] \in 1..ApiMax
                 /\ nth["ai"] \in 1..AiMax
           /\ \A l \in Limiters :
                 /\ nth[l] > LimiterMax(l) =>
                       /\ ByLimiter(1, l)
                       /\ req[1].calls = 0
                       /\ ~ReachedHandler(1)
                 /\ ByLimiter(1, l) => nth[l] > LimiterMax(l)
           /\ pc[1] \in {"route", "ai"} => nth["api"] \in 1..ApiMax
           /\ resp[1].status = 429 => \E l \in Limiters : ByLimiter(1, l)

\* an analyze request of caller 2 reached the external service after caller 1
\* had used up its AI quota
C16_Witness ==
    /\ OnServer(1)
    /\ req[1].kind = "analyze"
    /\ req[1].ip = 2
    /\ req[1].calls = 1
    /\ hits["ai"][1] > AiMax

\* ------------------------------------------ properties of the two backends
Tables(b) == [users |-> b.users, coffees |-> b.coffees]

\* C14: whatever sequence of query helpers is run on both backends from the
\* same initial state, every helper returns the same result on SQLite and on
\* PostgreSQL, and the two backends hold the same rows in both tables.
C14_BackendsAgree ==
    /\ results.sqlite = results.postgresql
    /\ Tables(sqlite) = Tables(postgresql)

\* ------------------------------------- properties of the connection handle
Quiet == Free(Caller)

\* C17: the handle goes uninitialized -> initialized -> closed: getDatabase
\* and every query helper throw 'Database not initialized' whenever
\* initDatabase has not completed or closeDatabase has run since; while no
\* initDatabase or closeDatabase is under way, db and dbType are both set or
\* both null; closeDatabase returns with both null, also when nothing is
\* open; initDatabase throws when the PostgreSQL connection test fails.
C17_HandleLifecycle ==
    /\ Quiet => (db = Null <=> dbType = NoType)
    /\ \A kind \in {"getDatabase", "query"} :
          (Done(Observer, kind) /\ req[Observer].phase # "initialized")
          => resp[Observer] = NotInitialized
    /\ Done(Caller, "close") =>
          /\ resp[Caller] = Returned(Null)
          /\ db = Null
          /\ dbType = NoType
    /\ (Done(Caller, "init") /\ resp[Caller].threw) => req[Caller].type = "postgresql"

====
